---- MODULE Spec2Model ----
(***************************************************************************)
(* GPUcudaMallocAsyncAllocator                                             *)
(* (tensorflow/core/common_runtime/gpu/gpu_cudamallocasync_allocator.cc),  *)
(* the build with GOOGLE_CUDA defined and CUDA_VERSION >= 11020.           *)
(*                                                                         *)
(* The CUDA driver is the environment: a stream-ordered pool that hands    *)
(* out device addresses and takes them back, and that may fail any call.   *)
(* Device addresses are small integers, 0 being nullptr.                   *)
(***************************************************************************)
EXTENDS Integers, Sequences, FiniteSets, TLC

\* ---------------------------------------------------------------- bounds
MaxPtr == 2
MaxSize == 1
MaxOps == 3
MaxCalls == 2

NULL == 0
Ptrs == 1..MaxPtr
Addrs == Ptrs \cup {NULL}
Sizes == 0..MaxSize
Threads == {"t1", "t2"}

cudaSuccess == "cudaSuccess"
cudaError == "cudaError"

VARIABLES
  ctor,          \* the constructor's arguments and what its driver calls returned
  cuda_stream_,  \* the stream handle the instance passes to the pool calls
  stats_,        \* AllocatorStats
  size_map_,     \* address -> requested bytes
  pool_live,     \* driver side: the addresses the pool has handed out
  stream_ops,    \* driver side: the pool calls issued, in issue order
  owned,         \* caller side: address -> size, from a successful allocate until its deallocate
  since_reset,   \* caller side: successful allocations since the last ClearStats
  largest_since_reset,     \* caller side: the largest of those allocations
  max_in_use_since_reset,  \* the largest value bytes_in_use has had since the last ClearStats
  last,          \* the last call made on the instance and what it returned
  fatal,         \* a CHECK failed or an exception escaped: the process is gone
  th,            \* per thread: the call in progress and its locals
  lock_          \* holder of the instance mutex, or "none"

vars == <<ctor, cuda_stream_, stats_, size_map_, pool_live, stream_ops, owned,
          since_reset, largest_since_reset, max_in_use_since_reset, last, fatal,
          th, lock_>>

\* ---------------------------------------------------------------- helpers
Max(a, b) == IF a >= b THEN a ELSE b

EmptyMap == [q \in {} |-> 0]

\* std::map operator[]= : insert or overwrite
MapPut(m, p, n) == [q \in (DOMAIN m) \cup {p} |-> IF q = p THEN n ELSE m[q]]

\* std::map::erase(key)
MapErase(m, p) == [q \in (DOMAIN m) \ {p} |-> m[q]]

\* std::map operator[] as an rvalue: the value, default-constructed (0) when absent
MapGet(m, p) == IF p \in DOMAIN m THEN m[p] ELSE 0

RECURSIVE SumMap(_)
SumMap(m) ==
  IF DOMAIN m = {} THEN 0
  ELSE LET p == CHOOSE q \in DOMAIN m : TRUE
       IN m[p] + SumMap(MapErase(m, p))

\* AllocatorStats as the member initialisers leave it
ZeroStats ==
  [num_allocs |-> 0, bytes_in_use |-> 0, peak_bytes_in_use |-> 0,
   largest_alloc_size |-> 0, bytes_limit |-> 0]

\* ---------------------------------------------------------------- the driver
\* cudaStreamCreate: the handle on success; cuda_stream_ keeps its nullptr otherwise
STREAM == 1
StreamCreate(ok) == IF ok THEN STREAM ELSE NULL

\* cudaMallocFromPoolAsync(&rv, num_bytes, pool_, cuda_stream_): an error, or
\* success with an address the pool has not handed out. A device without
\* memory pools fails every such call.
MallocOutcomes(a) ==
  {[res |-> cudaError, rv |-> NULL]}
    \cup (IF a.supported
          THEN {[res |-> cudaSuccess, rv |-> p] : p \in Ptrs \ a.live}
          ELSE {})

\* cudaFreeAsync(ptr, cuda_stream_): may report an error for any address
FreeOutcomes == {cudaSuccess, cudaError}

MallocOp(n, o, s) == [op |-> "malloc", ptr |-> o.rv, size |-> n, stream |-> s]
FreeOp(p, s) == [op |-> "free", ptr |-> p, size |-> 0, stream |-> s]

\* ---------------------------------------------------------------- the methods
\* An instance is the record
\*   [supported, stream, stats, size_map, live, ops]
\* the methods below map an instance to the instance after the call.

\* Mutant: the peak is taken before num_bytes is added
AllocUpdateStats_PeakBeforeAdd(st, num_bytes) ==
  LET s1 == [st EXCEPT !.num_allocs = @ + 1]
      s2 == [s1 EXCEPT !.peak_bytes_in_use = Max(@, s1.bytes_in_use)]
      s3 == [s2 EXCEPT !.bytes_in_use = @ + num_bytes]
  IN [s3 EXCEPT !.largest_alloc_size = Max(@, num_bytes)]

\* Mutant: largest_alloc_size takes the size of the latest allocation
AllocUpdateStats_LargestIsLatest(st, num_bytes) ==
  LET s1 == [st EXCEPT !.num_allocs = @ + 1]
      s2 == [s1 EXCEPT !.bytes_in_use = @ + num_bytes]
      s3 == [s2 EXCEPT !.peak_bytes_in_use = Max(@, s2.bytes_in_use)]
  IN [s3 EXCEPT !.largest_alloc_size = num_bytes]

\* AllocateRaw, "Update stats."
AllocUpdateStats(st, num_bytes) ==
  LET s1 == [st EXCEPT !.num_allocs = @ + 1]
      s2 == [s1 EXCEPT !.bytes_in_use = @ + num_bytes]
      s3 == [s2 EXCEPT !.peak_bytes_in_use = Max(@, s2.bytes_in_use)]
  IN [s3 EXCEPT !.largest_alloc_size = Max(@, num_bytes)]

\* AllocateRaw: size_map_[rv] = num_bytes
AllocRecordSize(m, rv, num_bytes) == MapPut(m, rv, num_bytes)

\* Mutant: the statistics are updated before the driver's result is looked at
AllocateRaw_CountsFailure(a, num_bytes, o) ==
  LET issued == [a EXCEPT !.ops = Append(@, MallocOp(num_bytes, o, a.stream)),
                          !.stats = AllocUpdateStats(@, num_bytes)]
  IN IF o.res # cudaSuccess
     THEN [self |-> issued, ret |-> NULL]
     ELSE [self |-> [issued EXCEPT
                       !.live = @ \cup {o.rv},
                       !.size_map = AllocRecordSize(@, o.rv, num_bytes)],
           ret |-> o.rv]

\* AllocateRaw(alignment, num_bytes) with the driver's outcome o: the instance
\* after the call and the returned address
AllocateRaw(a, num_bytes, o) ==
  LET issued == [a EXCEPT !.ops = Append(@, MallocOp(num_bytes, o, a.stream))]
  IN IF o.res # cudaSuccess
     THEN [self |-> issued, ret |-> NULL]
     ELSE [self |-> [issued EXCEPT
                       !.live = @ \cup {o.rv},
                       !.stats = AllocUpdateStats(@, num_bytes),
                       !.size_map = AllocRecordSize(@, o.rv, num_bytes)],
           ret |-> o.rv]

\* Mutant: the size is never subtracted
DeallocUpdateStats_NoSubtract(st, m, ptr) == st

\* Mutant: the peak follows bytes_in_use down
DeallocUpdateStats_LowersPeak(st, m, ptr) ==
  [st EXCEPT !.bytes_in_use = @ - MapGet(m, ptr),
             !.peak_bytes_in_use = st.bytes_in_use - MapGet(m, ptr)]

\* DeallocateRaw, "Updates the stats.": size = size_map_[ptr]; bytes_in_use -= size
DeallocUpdateStats(st, m, ptr) ==
  [st EXCEPT !.bytes_in_use = @ - MapGet(m, ptr)]

\* Mutant: the entry operator[] inserts for an absent address is left behind
DeallocEraseSize_LeavesDefault(m, ptr) ==
  IF ptr \in DOMAIN m THEN MapErase(m, ptr) ELSE MapPut(m, ptr, 0)

\* DeallocateRaw: size_map_[ptr] inserts ptr when absent, erase(ptr) removes it
DeallocEraseSize(m, ptr) == MapErase(MapPut(m, ptr, MapGet(m, ptr)), ptr)

\* Mutant: the bookkeeping is skipped when cudaFreeAsync reports an error
DeallocateRaw_SkipsOnError(a, ptr, res) ==
  IF res # cudaSuccess
  THEN [a EXCEPT !.ops = Append(@, FreeOp(ptr, a.stream))]
  ELSE [a EXCEPT !.ops = Append(@, FreeOp(ptr, a.stream)),
                 !.live = @ \ {ptr},
                 !.stats = DeallocUpdateStats(@, a.size_map, ptr),
                 !.size_map = DeallocEraseSize(@, ptr)]

\* DeallocateRaw(ptr) with the driver's result res
DeallocateRaw(a, ptr, res) ==
  [a EXCEPT !.ops = Append(@, FreeOp(ptr, a.stream)),
            !.live = IF res = cudaSuccess THEN @ \ {ptr} ELSE @,
            !.stats = DeallocUpdateStats(@, a.size_map, ptr),
            !.size_map = DeallocEraseSize(@, ptr)]

\* Mutant: the peak is reset to zero
ClearedStats_PeakZero(st) ==
  [st EXCEPT !.num_allocs = 0, !.peak_bytes_in_use = 0, !.largest_alloc_size = 0]

\* Mutant: bytes_in_use is reset with the rest
ClearedStats_ZeroBytes(st) ==
  [st EXCEPT !.num_allocs = 0, !.bytes_in_use = 0, !.peak_bytes_in_use = 0,
             !.largest_alloc_size = 0]

\* Mutant: the peak survives the reset
ClearedStats_KeepsPeak(st) ==
  [st EXCEPT !.num_allocs = 0, !.largest_alloc_size = 0]

\* ClearStats
ClearedStats(st) ==
  LET s1 == [st EXCEPT !.num_allocs = 0]
      s2 == [s1 EXCEPT !.peak_bytes_in_use = s1.bytes_in_use]
  IN [s2 EXCEPT !.largest_alloc_size = 0]

ClearStatsOf(a) == [a EXCEPT !.stats = ClearedStats(@)]

\* RequestedSize / AllocatedSize: CHECK(ptr); size_map_.at(ptr).
\* -1 stands for the process ending (CHECK failure, or std::out_of_range
\* escaping a const method nobody catches).
FATAL == -1
\* Mutant: operator[] in place of at(): an absent address reads as 0
RequestedSize_DefaultZero(m, ptr) ==
  IF ptr = NULL THEN FATAL
  ELSE IF ptr \in DOMAIN m THEN m[ptr] ELSE 0

RequestedSize(m, ptr) ==
  IF ptr = NULL THEN FATAL
  ELSE IF ptr \in DOMAIN m THEN m[ptr] ELSE FATAL

\* Mutant: the size rounded up to a size class of 2 bytes
AllocatedSize_RoundedUp(m, ptr) ==
  IF ptr = NULL THEN FATAL
  ELSE IF ptr \in DOMAIN m THEN ((m[ptr] + 1) \div 2) * 2 ELSE FATAL

AllocatedSize(m, ptr) ==
  IF ptr = NULL THEN FATAL
  ELSE IF ptr \in DOMAIN m THEN m[ptr] ELSE FATAL

\* Mutant: the pre-warm pair is not reset away
PreWarm_NoClear(a, pool_size, o, fres) ==
  LET r == AllocateRaw(a, pool_size, o)
  IN DeallocateRaw(r.self, r.ret, fres)

\* The pre-warm block of the constructor: AllocateRaw(0, pool_size);
\* DeallocateRaw(ptr); ClearStats()
PreWarm(a, pool_size, o, fres) ==
  LET r == AllocateRaw(a, pool_size, o)
  IN ClearStatsOf(DeallocateRaw(r.self, r.ret, fres))

\* The constructor. c: its arguments (pool_size, reserve_memory) and which of
\* its driver calls failed, if any (failure); o, fres: the driver's answers to
\* the pre-warm pair. Every failure is logged and construction goes on.
\* Mutant: bytes_limit is recorded only when the driver took the threshold
Constructed_LimitOnlyOnSuccess(c) ==
  [supported |-> c.failure # "unsupported",
   stream    |-> StreamCreate(c.failure # "stream"),
   stats     |-> [ZeroStats EXCEPT
                    !.bytes_limit = IF c.failure = "threshold" THEN 0 ELSE c.pool_size],
   size_map  |-> EmptyMap,
   live      |-> {},
   ops       |-> <<>>]

Constructed(c) ==
  [supported |-> c.failure # "unsupported",
   stream    |-> StreamCreate(c.failure # "stream"),
   stats     |-> [ZeroStats EXCEPT !.bytes_limit = c.pool_size],
   size_map  |-> EmptyMap,
   live      |-> {},
   ops       |-> <<>>]

Constructor(c, o, fres) ==
  IF c.reserve_memory
  THEN PreWarm(Constructed(c), c.pool_size, o, fres)
  ELSE Constructed(c)

\* ---------------------------------------------------------------- state
Self ==
  [supported |-> ctor.failure # "unsupported", stream |-> cuda_stream_, stats |-> stats_,
   size_map |-> size_map_, live |-> pool_live, ops |-> stream_ops]

Becomes(a) ==
  /\ cuda_stream_' = a.stream
  /\ stats_' = a.stats
  /\ size_map_' = a.size_map
  /\ pool_live' = a.live
  /\ stream_ops' = a.ops

\* A call on the instance and the value it returned (NULL for a void method)
Call(op, ret) == [op |-> op, ret |-> ret]

\* A thread between calls. pc: the statement it is at; arg: num_bytes or ptr;
\* rv, size: the locals of AllocateRaw and DeallocateRaw; reg: the value a
\* read-modify-write has loaded; calls: the calls it has made.
Idle == [pc |-> "idle", arg |-> 0, rv |-> 0, size |-> 0, reg |-> 0, calls |-> 0]

\* The driver call of the constructor that failed: cudaDeviceGetAttribute
\* reporting no memory pools, cudaStreamCreate, cudaDeviceGetDefaultMemPool,
\* cudaMemPoolSetAttribute; or none.
Failures == {"none", "unsupported", "stream", "pool", "threshold"}

CtorCases ==
  [failure : Failures, pool_size : {MaxSize}, reserve_memory : BOOLEAN]

Init ==
  \E c \in CtorCases :
    \E o \in MallocOutcomes(Constructed(c)) :
      \E fres \in FreeOutcomes :
        LET a == Constructor(c, o, fres)
        IN /\ ctor = c
           /\ cuda_stream_ = a.stream
           /\ stats_ = a.stats
           /\ size_map_ = a.size_map
           /\ pool_live = a.live
           /\ stream_ops = a.ops
           /\ owned = EmptyMap
           /\ since_reset = 0
           /\ largest_since_reset = 0
           /\ max_in_use_since_reset = a.stats.bytes_in_use
           /\ last = Call("ctor", NULL)
           /\ fatal = FALSE
           /\ th = [t \in Threads |-> Idle]
           /\ lock_ = "none"

\* ---------------------------------------------------------------- calls, one at a time
\* The instance issues at most MaxOps pool calls, the constructor's included
CanIssue == ~fatal /\ Len(stream_ops) < MaxOps

Allocate ==
  /\ CanIssue
  /\ \E n \in Sizes : \E o \in MallocOutcomes(Self) :
       LET r == AllocateRaw(Self, n, o)
       IN /\ Becomes(r.self)
          /\ owned' = IF r.ret # NULL THEN MapPut(owned, r.ret, n) ELSE owned
          /\ since_reset' = IF r.ret # NULL THEN since_reset + 1 ELSE since_reset
          /\ largest_since_reset' =
               IF r.ret # NULL THEN Max(largest_since_reset, n) ELSE largest_since_reset
          /\ max_in_use_since_reset' =
               Max(max_in_use_since_reset, r.self.stats.bytes_in_use)
          /\ last' = Call("AllocateRaw", r.ret)
  /\ UNCHANGED <<ctor, fatal, th, lock_>>

Deallocate ==
  /\ CanIssue
  /\ \E p \in Addrs : \E res \in FreeOutcomes :
       /\ Becomes(DeallocateRaw(Self, p, res))
       /\ owned' = MapErase(owned, p)
       /\ max_in_use_since_reset' =
            Max(max_in_use_since_reset, DeallocateRaw(Self, p, res).stats.bytes_in_use)
       /\ last' = Call("DeallocateRaw", NULL)
  /\ UNCHANGED <<ctor, since_reset, largest_since_reset, fatal, th, lock_>>

ClearStats ==
  /\ ~fatal
  /\ Becomes(ClearStatsOf(Self))
  /\ since_reset' = 0
  /\ largest_since_reset' = 0
  /\ max_in_use_since_reset' = ClearStatsOf(Self).stats.bytes_in_use
  /\ last' = Call("ClearStats", NULL)
  /\ UNCHANGED <<ctor, owned, fatal, th, lock_>>

\* RequestedSize and AllocatedSize are const: a call that returns leaves the
\* instance as it was (its value is the operator's); a call that does not
\* return ends the process.
QueryRequestedSize ==
  /\ ~fatal
  /\ \E p \in Addrs :
       /\ fatal' = (RequestedSize(size_map_, p) = FATAL)
       /\ last' = IF fatal' THEN Call("RequestedSize", FATAL) ELSE last
  /\ UNCHANGED <<ctor, cuda_stream_, stats_, size_map_, pool_live, stream_ops,
                 owned, since_reset, largest_since_reset, max_in_use_since_reset,
                 th, lock_>>

QueryAllocatedSize ==
  /\ ~fatal
  /\ \E p \in Addrs :
       /\ fatal' = (AllocatedSize(size_map_, p) = FATAL)
       /\ last' = IF fatal' THEN Call("AllocatedSize", FATAL) ELSE last
  /\ UNCHANGED <<ctor, cuda_stream_, stats_, size_map_, pool_live, stream_ops,
                 owned, since_reset, largest_since_reset, max_in_use_since_reset,
                 th, lock_>>

Next ==
  \/ Allocate
  \/ Deallocate
  \/ ClearStats
  \/ QueryRequestedSize
  \/ QueryAllocatedSize

Spec == Init /\ [][Next]_vars

\* ---------------------------------------------------------------- calls from several threads
\* AllocateRaw and DeallocateRaw take no lock, so their statements interleave
\* with those of other threads; ++ and += / -= on the shared statistics are a
\* load and a store. ClearStats holds lock_ for its three assignments.
At(t, pc) == ~fatal /\ th[t].pc = pc
CanCall(t) == At(t, "idle") /\ th[t].calls < MaxCalls
Goto(t, pc) == th' = [th EXCEPT ![t].pc = pc]
Return(t) == th' = [th EXCEPT ![t] = [Idle EXCEPT !.calls = th[t].calls + 1]]

\* AllocateRaw: cudaMallocFromPoolAsync, and the return on failure
T_AllocIssue(t) ==
  /\ CanCall(t)
  /\ Len(stream_ops) < MaxOps
  /\ \E n \in Sizes : \E o \in MallocOutcomes(Self) :
       /\ stream_ops' = Append(stream_ops, MallocOp(n, o, cuda_stream_))
       /\ IF o.res # cudaSuccess
          THEN /\ Return(t)
               /\ UNCHANGED pool_live
          ELSE /\ th' = [th EXCEPT ![t].pc = "a134_load", ![t].arg = n, ![t].rv = o.rv]
               /\ pool_live' = pool_live \cup {o.rv}
  /\ UNCHANGED <<ctor, cuda_stream_, stats_, size_map_, owned, since_reset,
                 largest_since_reset, max_in_use_since_reset, last,
                 fatal, lock_>>

\* ++stats_.num_allocs
T_AllocLoadNumAllocs(t) ==
  /\ At(t, "a134_load")
  /\ th' = [th EXCEPT ![t].pc = "a134_store", ![t].reg = stats_.num_allocs]
  /\ UNCHANGED <<ctor, cuda_stream_, stats_, size_map_, pool_live, stream_ops,
                 owned, since_reset, largest_since_reset, max_in_use_since_reset,
                 last, fatal, lock_>>

T_AllocStoreNumAllocs(t) ==
  /\ At(t, "a134_store")
  /\ stats_' = [stats_ EXCEPT !.num_allocs = th[t].reg + 1]
  /\ since_reset' = since_reset + 1
  /\ largest_since_reset' = Max(largest_since_reset, th[t].arg)
  /\ Goto(t, "a135_load")
  /\ UNCHANGED <<ctor, cuda_stream_, size_map_, pool_live, stream_ops, owned,
                 max_in_use_since_reset,
                 last, fatal, lock_>>

\* stats_.bytes_in_use += num_bytes
T_AllocLoadBytes(t) ==
  /\ At(t, "a135_load")
  /\ th' = [th EXCEPT ![t].pc = "a135_store", ![t].reg = stats_.bytes_in_use]
  /\ UNCHANGED <<ctor, cuda_stream_, stats_, size_map_, pool_live, stream_ops,
                 owned, since_reset, largest_since_reset, max_in_use_since_reset,
                 last, fatal, lock_>>

T_AllocStoreBytes(t) ==
  /\ At(t, "a135_store")
  /\ stats_' = [stats_ EXCEPT !.bytes_in_use = th[t].reg + th[t].arg]
  /\ max_in_use_since_reset' = Max(max_in_use_since_reset, th[t].reg + th[t].arg)
  /\ Goto(t, "a136")
  /\ UNCHANGED <<ctor, cuda_stream_, size_map_, pool_live, stream_ops, owned,
                 since_reset, largest_since_reset, last, fatal, lock_>>

\* stats_.peak_bytes_in_use = std::max(peak_bytes_in_use, bytes_in_use)
T_AllocPeak(t) ==
  /\ At(t, "a136")
  /\ stats_' = [stats_ EXCEPT !.peak_bytes_in_use = Max(@, stats_.bytes_in_use)]
  /\ Goto(t, "a138")
  /\ UNCHANGED <<ctor, cuda_stream_, size_map_, pool_live, stream_ops, owned,
                 since_reset, largest_since_reset, max_in_use_since_reset, last, fatal, lock_>>

\* stats_.largest_alloc_size = std::max(largest_alloc_size, num_bytes)
T_AllocLargest(t) ==
  /\ At(t, "a138")
  /\ stats_' = [stats_ EXCEPT !.largest_alloc_size = Max(@, th[t].arg)]
  /\ Goto(t, "a140")
  /\ UNCHANGED <<ctor, cuda_stream_, size_map_, pool_live, stream_ops, owned,
                 since_reset, largest_since_reset, max_in_use_since_reset, last, fatal, lock_>>

\* size_map_[rv] = num_bytes; return rv
T_AllocRecord(t) ==
  /\ At(t, "a140")
  /\ size_map_' = AllocRecordSize(size_map_, th[t].rv, th[t].arg)
  /\ owned' = MapPut(owned, th[t].rv, th[t].arg)
  /\ Return(t)
  /\ UNCHANGED <<ctor, cuda_stream_, stats_, pool_live, stream_ops, since_reset,
                 largest_since_reset, max_in_use_since_reset,
                 last, fatal, lock_>>

\* DeallocateRaw of an address the caller holds: cudaFreeAsync
T_DeallocIssue(t) ==
  /\ CanCall(t)
  /\ Len(stream_ops) < MaxOps
  /\ \E p \in DOMAIN owned : \E res \in FreeOutcomes :
       /\ stream_ops' = Append(stream_ops, FreeOp(p, cuda_stream_))
       /\ pool_live' = IF res = cudaSuccess THEN pool_live \ {p} ELSE pool_live
       /\ owned' = MapErase(owned, p)
       /\ th' = [th EXCEPT ![t].pc = "d160", ![t].arg = p]
  /\ UNCHANGED <<ctor, cuda_stream_, stats_, size_map_, since_reset,
                 largest_since_reset, max_in_use_since_reset, last, fatal,
                 lock_>>

\* size_t size = size_map_[ptr]
T_DeallocReadSize(t) ==
  /\ At(t, "d160")
  /\ th' = [th EXCEPT ![t].pc = "d161_load", ![t].size = MapGet(size_map_, th[t].arg)]
  /\ size_map_' = MapPut(size_map_, th[t].arg, MapGet(size_map_, th[t].arg))
  /\ UNCHANGED <<ctor, cuda_stream_, stats_, pool_live, stream_ops, owned,
                 since_reset, largest_since_reset, max_in_use_since_reset, last, fatal, lock_>>

\* stats_.bytes_in_use -= size
T_DeallocLoadBytes(t) ==
  /\ At(t, "d161_load")
  /\ th' = [th EXCEPT ![t].pc = "d161_store", ![t].reg = stats_.bytes_in_use]
  /\ UNCHANGED <<ctor, cuda_stream_, stats_, size_map_, pool_live, stream_ops,
                 owned, since_reset, largest_since_reset, max_in_use_since_reset,
                 last, fatal, lock_>>

T_DeallocStoreBytes(t) ==
  /\ At(t, "d161_store")
  /\ stats_' = [stats_ EXCEPT !.bytes_in_use = th[t].reg - th[t].size]
  /\ max_in_use_since_reset' = Max(max_in_use_since_reset, th[t].reg - th[t].size)
  /\ Goto(t, "d162")
  /\ UNCHANGED <<ctor, cuda_stream_, size_map_, pool_live, stream_ops, owned,
                 since_reset, largest_since_reset, last, fatal, lock_>>

\* size_map_.erase(ptr); return
T_DeallocErase(t) ==
  /\ At(t, "d162")
  /\ size_map_' = MapErase(size_map_, th[t].arg)
  /\ Return(t)
  /\ UNCHANGED <<ctor, cuda_stream_, stats_, pool_live, stream_ops, owned,
                 since_reset, largest_since_reset, max_in_use_since_reset, last, fatal, lock_>>

\* ClearStats: mutex_lock l(lock_)
T_ClearLock(t) ==
  /\ CanCall(t)
  /\ lock_ = "none"
  /\ lock_' = t
  /\ Goto(t, "c189")
  /\ UNCHANGED <<ctor, cuda_stream_, stats_, size_map_, pool_live, stream_ops,
                 owned, since_reset, largest_since_reset, max_in_use_since_reset,
                 last, fatal>>

\* stats_.num_allocs = 0
T_ClearNumAllocs(t) ==
  /\ At(t, "c189")
  /\ stats_' = [stats_ EXCEPT !.num_allocs = 0]
  /\ since_reset' = 0
  /\ largest_since_reset' = 0
  /\ Goto(t, "c190")
  /\ UNCHANGED <<ctor, cuda_stream_, size_map_, pool_live, stream_ops, owned,
                 max_in_use_since_reset,
                 last, fatal, lock_>>

\* stats_.peak_bytes_in_use = stats_.bytes_in_use
T_ClearPeak(t) ==
  /\ At(t, "c190")
  /\ stats_' = [stats_ EXCEPT !.peak_bytes_in_use = stats_.bytes_in_use]
  /\ max_in_use_since_reset' = stats_.bytes_in_use
  /\ Goto(t, "c191")
  /\ UNCHANGED <<ctor, cuda_stream_, size_map_, pool_live, stream_ops, owned,
                 since_reset, largest_since_reset, last, fatal, lock_>>

\* stats_.largest_alloc_size = 0; the lock is released on return
T_ClearLargest(t) ==
  /\ At(t, "c191")
  /\ stats_' = [stats_ EXCEPT !.largest_alloc_size = 0]
  /\ lock_' = "none"
  /\ Return(t)
  /\ UNCHANGED <<ctor, cuda_stream_, size_map_, pool_live, stream_ops, owned,
                 since_reset, largest_since_reset, max_in_use_since_reset, last, fatal>>

\* GetStats: mutex_lock l(lock_)
T_GetLock(t) ==
  /\ CanCall(t)
  /\ lock_ = "none"
  /\ lock_' = t
  /\ Goto(t, "g184")
  /\ UNCHANGED <<ctor, cuda_stream_, stats_, size_map_, pool_live, stream_ops,
                 owned, since_reset, largest_since_reset, max_in_use_since_reset,
                 last, fatal>>

\* return stats_: the caller gets a copy; the lock is released on return
T_GetCopy(t) ==
  /\ At(t, "g184")
  /\ last' = Call("GetStats", stats_)
  /\ lock_' = "none"
  /\ Return(t)
  /\ UNCHANGED <<ctor, cuda_stream_, stats_, size_map_, pool_live, stream_ops,
                 owned, since_reset, largest_since_reset, max_in_use_since_reset,
                 fatal>>

\* Several threads share an instance that was constructed without failure
InitConc == Init /\ ctor.failure = "none" /\ ~ctor.reserve_memory

NextConc ==
  \E t \in Threads :
    \/ T_AllocIssue(t)
    \/ T_AllocLoadNumAllocs(t)
    \/ T_AllocStoreNumAllocs(t)
    \/ T_AllocLoadBytes(t)
    \/ T_AllocStoreBytes(t)
    \/ T_AllocPeak(t)
    \/ T_AllocLargest(t)
    \/ T_AllocRecord(t)
    \/ T_DeallocIssue(t)
    \/ T_DeallocReadSize(t)
    \/ T_DeallocLoadBytes(t)
    \/ T_DeallocStoreBytes(t)
    \/ T_DeallocErase(t)
    \/ T_ClearLock(t)
    \/ T_ClearNumAllocs(t)
    \/ T_ClearPeak(t)
    \/ T_ClearLargest(t)
    \/ T_GetLock(t)
    \/ T_GetCopy(t)

SpecConc == InitConc /\ [][NextConc]_vars

Quiescent == \A t \in Threads : th[t].pc = "idle"

\* ---------------------------------------------------------------- claims
\* The step issues a pool call: the stream's log grows by that call
Issued == IF Len(stream_ops') = Len(stream_ops) + 1
          THEN stream_ops'[Len(stream_ops')]
          ELSE [op |-> "none", ptr |-> NULL, size |-> 0, stream |-> NULL]

DeallocStep(p) == Issued.op = "free" /\ Issued.ptr = p
FailedAllocStep == Issued.op = "malloc" /\ Issued.ptr = NULL
ClearStatsStep == last'.op = "ClearStats" /\ stream_ops' = stream_ops

\* C1: with calls made one at a time, bytes_in_use is the sum of the sizes in
\* the size-tracking map, and the map holds exactly the addresses returned by
\* a successful allocate and not yet deallocated, with their requested sizes.
C1_BytesInUseIsSumOfLive ==
  /\ stats_.bytes_in_use = SumMap(size_map_)
  /\ size_map_ = owned

C1_Witness ==
  /\ last.op = "DeallocateRaw"
  /\ Cardinality(DOMAIN owned) >= 1
  /\ stats_.bytes_in_use > 0
  /\ stats_.peak_bytes_in_use > stats_.bytes_in_use

\* C2: from a successful allocate of s bytes returning p until p is
\* deallocated, RequestedSize(p) and AllocatedSize(p) both return s.
C2_SizeQueriesReturnRequested ==
  \A p \in DOMAIN owned :
    /\ RequestedSize(size_map_, p) = owned[p]
    /\ AllocatedSize(size_map_, p) = owned[p]

C2_Witness ==
  /\ last.op = "ClearStats"
  /\ \E p \in DOMAIN owned : owned[p] = MaxSize /\ RequestedSize(size_map_, p) = MaxSize
  /\ \E e \in 1..Len(stream_ops) : stream_ops[e].op = "free"

\* C3: deallocate of a live address p with recorded size s removes p from the
\* map and lowers bytes_in_use by s; the other entries, num_allocs,
\* peak_bytes_in_use, largest_alloc_size and bytes_limit stay.
C3_DeallocateFrame ==
  [][\A p \in DOMAIN size_map_ :
       DeallocStep(p) =>
         /\ DOMAIN size_map_' = (DOMAIN size_map_) \ {p}
         /\ \A q \in DOMAIN size_map_' : size_map_'[q] = size_map_[q]
         /\ stats_'.bytes_in_use = stats_.bytes_in_use - size_map_[p]
         /\ stats_'.num_allocs = stats_.num_allocs
         /\ stats_'.peak_bytes_in_use = stats_.peak_bytes_in_use
         /\ stats_'.largest_alloc_size = stats_.largest_alloc_size
         /\ stats_'.bytes_limit = stats_.bytes_limit]_vars

C3_Witness ==
  /\ last.op = "DeallocateRaw"
  /\ DOMAIN size_map_ # {}
  /\ stats_.num_allocs = 2
  /\ stats_.bytes_in_use < stats_.peak_bytes_in_use

\* C4: peak_bytes_in_use >= bytes_in_use in every state, the state the
\* constructor leaves included.
C4_PeakAtLeastInUse == stats_.peak_bytes_in_use >= stats_.bytes_in_use

C4_Witness ==
  /\ stats_.bytes_in_use > 0
  /\ stats_.peak_bytes_in_use > stats_.bytes_in_use
  /\ stats_.num_allocs >= 2
  /\ ctor.reserve_memory = FALSE

\* C5: allocate and deallocate never lower peak_bytes_in_use; a step that
\* lowers it is a ClearStats, which sets it to bytes_in_use.
C5_PeakMonotoneUntilReset ==
  [][/\ (Issued.op \in {"malloc", "free"} =>
           stats_'.peak_bytes_in_use >= stats_.peak_bytes_in_use)
     /\ (stats_'.peak_bytes_in_use < stats_.peak_bytes_in_use =>
           /\ ClearStatsStep
           /\ stats_'.peak_bytes_in_use = stats_.bytes_in_use)]_vars

C5_Witness ==
  /\ last.op = "ClearStats"
  /\ stats_.bytes_in_use > 0
  /\ stats_.peak_bytes_in_use = stats_.bytes_in_use
  /\ \E e \in 1..Len(stream_ops) :
       /\ stream_ops[e].op = "free"
       /\ \E d \in 1..(e - 1) :
            /\ stream_ops[d].op = "malloc"
            /\ stream_ops[d].ptr = stream_ops[e].ptr
            /\ stream_ops[d].ptr # NULL
            /\ stream_ops[d].size > 0

\* C6: ClearStats zeroes num_allocs and largest_alloc_size, sets
\* peak_bytes_in_use to bytes_in_use, and leaves bytes_in_use and the map.
C6_ClearStatsFrame ==
  [][ClearStatsStep =>
       /\ stats_'.num_allocs = 0
       /\ stats_'.largest_alloc_size = 0
       /\ stats_'.peak_bytes_in_use = stats_.bytes_in_use
       /\ stats_'.bytes_in_use = stats_.bytes_in_use
       /\ stats_'.bytes_limit = stats_.bytes_limit
       /\ size_map_' = size_map_]_vars

C6_Witness ==
  /\ last.op = "ClearStats"
  /\ stats_.num_allocs = 0
  /\ stats_.largest_alloc_size = 0
  /\ stats_.bytes_in_use > 0
  /\ DOMAIN size_map_ # {}

\* C7: when the pool allocation fails, allocate returns nullptr, no fatal
\* state is reached, and the statistics and the map are as before the call.
C7_FailedAllocateLeavesState ==
  [][FailedAllocStep =>
       /\ last' = Call("AllocateRaw", NULL)
       /\ fatal' = FALSE
       /\ stats_' = stats_
       /\ size_map_' = size_map_]_vars

C7_Witness ==
  /\ last = Call("AllocateRaw", NULL)
  /\ stats_.num_allocs > 0
  /\ DOMAIN size_map_ # {}
  /\ stream_ops[Len(stream_ops)].op = "malloc"
  /\ stream_ops[Len(stream_ops)].ptr = NULL

\* C8: on an instance whose construction logged a failure, every allocate
\* returns nullptr and the four statistics stay zero.
C8_DegradedInstanceAlwaysNull ==
  ctor.failure # "none" =>
    /\ (last.op = "AllocateRaw" => last.ret = NULL)
    /\ stats_.num_allocs = 0
    /\ stats_.bytes_in_use = 0
    /\ stats_.peak_bytes_in_use = 0
    /\ stats_.largest_alloc_size = 0

\* C9: with pre-warming, the constructor issues one pool allocation of
\* pool_size bytes, then one deallocation of the address it returned, and
\* leaves zero statistics and an empty map.
C9_PreWarmResetAway ==
  (last.op = "ctor" /\ ctor.reserve_memory) =>
    /\ Len(stream_ops) = 2
    /\ stream_ops[1].op = "malloc"
    /\ stream_ops[1].size = ctor.pool_size
    /\ stream_ops[2] = FreeOp(stream_ops[1].ptr, cuda_stream_)
    /\ stats_.num_allocs = 0
    /\ stats_.bytes_in_use = 0
    /\ stats_.peak_bytes_in_use = 0
    /\ stats_.largest_alloc_size = 0
    /\ size_map_ = EmptyMap

C9_Witness ==
  /\ last.op = "ctor"
  /\ ctor.reserve_memory
  /\ Len(stream_ops) = 2
  /\ stream_ops[1].ptr # NULL
  /\ stream_ops[1].size = ctor.pool_size

\* C10: with several threads calling allocate and deallocate, no bookkeeping
\* update is lost: once every call has returned, bytes_in_use is the sum of
\* the sizes of the live addresses and num_allocs is the number of successful
\* allocations since the last reset.
C10_NoLostUpdate ==
  Quiescent =>
    /\ stats_.bytes_in_use = SumMap(owned)
    /\ stats_.num_allocs = since_reset

\* C11: RequestedSize(p) and AllocatedSize(p) of an address that is not in
\* the size-tracking map (nullptr included) end the process and return no
\* size; the statistics and the map are as before the query, and nothing
\* runs afterwards.
C11_UntrackedQueryIsFatal ==
  /\ [](\A p \in Addrs \ DOMAIN size_map_ :
          /\ RequestedSize(size_map_, p) = FATAL
          /\ AllocatedSize(size_map_, p) = FATAL)
  /\ [][/\ (~fatal /\ fatal') =>
             /\ last'.op \in {"RequestedSize", "AllocatedSize"}
             /\ last'.ret = FATAL
             /\ stats_' = stats_
             /\ size_map_' = size_map_
        /\ ~fatal]_vars

C11_Witness ==
  /\ fatal
  /\ last = Call("RequestedSize", FATAL)
  /\ DOMAIN size_map_ # {}
  /\ Ptrs \ DOMAIN size_map_ # {}
  /\ \E e \in 1..Len(stream_ops) : stream_ops[e].op = "free" /\ stream_ops[e].ptr \in Ptrs

\* C12: num_allocs is the number of successful allocations since the last
\* ClearStats (or construction) and largest_alloc_size the largest of their
\* sizes, 0 when there were none; a failed allocation and a deallocation
\* change neither.
C12_CountAndLargestSinceReset ==
  /\ [](/\ stats_.num_allocs = since_reset
        /\ stats_.largest_alloc_size = largest_since_reset)
  /\ [][(FailedAllocStep \/ Issued.op = "free") =>
          /\ stats_'.num_allocs = stats_.num_allocs
          /\ stats_'.largest_alloc_size = stats_.largest_alloc_size]_vars

C12_Witness ==
  /\ last.op = "AllocateRaw"
  /\ last.ret # NULL
  /\ stats_.num_allocs = 2
  /\ stats_.largest_alloc_size = MaxSize
  /\ stream_ops[Len(stream_ops)].size < MaxSize
  /\ \E e \in 1..Len(stream_ops) : stream_ops[e].op = "malloc" /\ stream_ops[e].ptr = NULL

\* C13: when cudaFreeAsync reports an error for a live address p (the pool
\* keeps p), deallocate still erases p from the map and subtracts its recorded
\* size from bytes_in_use, exactly as a succeeding deallocate does, and no
\* fatal state is reached.
C13_FailedFreeStillReconciles ==
  [][\A p \in DOMAIN size_map_ :
       (DeallocStep(p) /\ p \in pool_live') =>
         /\ size_map_' = MapErase(size_map_, p)
         /\ stats_' = [stats_ EXCEPT !.bytes_in_use = @ - size_map_[p]]
         /\ size_map_' = DeallocateRaw(Self, p, cudaSuccess).size_map
         /\ stats_' = DeallocateRaw(Self, p, cudaSuccess).stats
         /\ fatal' = FALSE]_vars

C13_Witness ==
  /\ last.op = "DeallocateRaw"
  /\ stream_ops[Len(stream_ops)].op = "free"
  /\ stream_ops[Len(stream_ops)].ptr \in pool_live \ DOMAIN size_map_
  /\ stats_.bytes_in_use < stats_.peak_bytes_in_use
  /\ ~fatal

\* C14: with several threads and a pool that may hand a freed address out
\* again as soon as the free has been issued, at every quiescent point the map
\* holds exactly the addresses returned by a successful allocate and not since
\* deallocated, each with the size of its most recent allocation.
C14_MapIsLiveSetWhenQuiescent ==
  Quiescent => size_map_ = owned

\* C15: a snapshot GetStats returns while other threads run allocate,
\* deallocate or ClearStats shows no partially applied update: never
\* bytes_in_use above peak_bytes_in_use, never num_allocs counting an
\* allocation whose bytes are not yet in bytes_in_use.
C15_SnapshotIsConsistent ==
  [][\A t \in Threads :
       (th[t].pc = "g184" /\ th'[t].pc = "idle") =>
         /\ last'.op = "GetStats"
         /\ last'.ret.bytes_in_use <= last'.ret.peak_bytes_in_use
         /\ \A u \in Threads :
              th[u].pc \in {"a135_load", "a135_store"} => th[u].arg = 0]_vars

\* C16: in every state peak_bytes_in_use is the largest value bytes_in_use
\* has taken since the last ClearStats (or since construction), the value
\* at that reset included.
C16_PeakIsMaxSinceReset ==
  stats_.peak_bytes_in_use = max_in_use_since_reset

\* a reset taken after a free, with bytes still in use: the peak is the value
\* of bytes_in_use at the reset
C16_Witness ==
  /\ \E i \in 1..Len(stream_ops) : stream_ops[i].op = "malloc" /\ stream_ops[i].ptr # NULL
  /\ last.op = "ClearStats"
  /\ stats_.bytes_in_use > 0
  /\ stats_.peak_bytes_in_use = stats_.bytes_in_use
  /\ SumMap(owned) = stats_.bytes_in_use
  /\ \E i \in 1..Len(stream_ops) : stream_ops[i].op = "free"

\* C17: every pool allocation and deallocation the instance issues, the
\* pre-warm pair included, is enqueued on the instance's one private stream,
\* and the allocation that returned an address the caller holds is in the
\* stream's sequence with no deallocation of that address after it.
C17_AllOpsOnPrivateStream ==
  /\ \A i \in 1..Len(stream_ops) : stream_ops[i].stream = STREAM
  /\ \A p \in DOMAIN owned :
       \E i \in 1..Len(stream_ops) :
         /\ stream_ops[i].op = "malloc" /\ stream_ops[i].ptr = p
         /\ \A j \in (i + 1)..Len(stream_ops) :
              ~(stream_ops[j].op = "free" /\ stream_ops[j].ptr = p)

\* C18: bytes_limit is the release threshold the constructor was given, also
\* when the driver refused the threshold, and no AllocateRaw, DeallocateRaw
\* or ClearStats (the one ending the pre-warm included) changes it.
C18_BytesLimitIsPoolSize ==
  /\ [](stats_.bytes_limit = ctor.pool_size)
  /\ [][stats_'.bytes_limit = stats_.bytes_limit]_vars

\* the driver refused the threshold; the instance was pre-warmed and has since
\* allocated and been reset
C18_Witness ==
  /\ ctor.failure = "threshold"
  /\ ctor.reserve_memory
  /\ last.op = "ClearStats"
  /\ Len(stream_ops) = MaxOps
  /\ stream_ops[MaxOps].op = "malloc" /\ stream_ops[MaxOps].ptr # NULL
  /\ stats_.bytes_limit = ctor.pool_size

\* C19: DeallocateRaw of an address that is not in the size-tracking map (the
\* null result of a failed pre-warm allocation, an address already
\* deallocated) subtracts 0 and leaves the map as it was; bytes_in_use is
\* never negative, and a pre-warm whose allocation failed ends with all-zero
\* statistics and an empty map.
C19_UntrackedDeallocateIsNoOp ==
  /\ [][\A p \in Addrs \ DOMAIN size_map_ :
          DeallocStep(p) => /\ stats_' = stats_
                            /\ size_map_' = size_map_]_vars
  /\ [](stats_.bytes_in_use >= 0)
  /\ []((last.op = "ctor" /\ ctor.reserve_memory /\ stream_ops[1].ptr = NULL) =>
          /\ stream_ops[2] = FreeOp(NULL, cuda_stream_)
          /\ stats_ = [ZeroStats EXCEPT !.bytes_limit = ctor.pool_size]
          /\ size_map_ = EmptyMap)

\* an address allocated, deallocated, and deallocated again
C19_Witness ==
  /\ last.op = "DeallocateRaw"
  /\ Len(stream_ops) = 3
  /\ stream_ops[1].op = "malloc" /\ stream_ops[1].ptr # NULL /\ stream_ops[1].size > 0
  /\ stream_ops[2] = FreeOp(stream_ops[1].ptr, cuda_stream_)
  /\ stream_ops[3] = stream_ops[2]
  /\ stats_.bytes_in_use = 0
  /\ size_map_ = EmptyMap

====
